---- MODULE Spec2Model ----
(***************************************************************************)
(* A model of file_sync.py: one-directional reconciliation of a            *)
(* destination tree against a source tree.  The filesystem is a function   *)
(* from absolute paths (sequences of names) to nodes; main is a sequential *)
(* process whose position is pc, and each loop iteration of the executor   *)
(* is one step.                                                            *)
(***************************************************************************)
EXTENDS Integers, Sequences, FiniteSets, TLC

\* ------------------------------------------------------------------ bounds
\* Largest number of entries (directories plus files) in an initial tree.
MaxNodes == 3
\* Largest number of times the program is started on the same arguments.
MaxRuns == 2

\* The names an entry may carry; a name may be a directory's or a file's.
Names == {"a", "b"}
\* The names of the trees that nest three directories.
DeepNames == {"a", "b", "c"}
\* The order in which a directory listing returns names.  The trees below
\* are closed under exchanging the names, so another order is the same
\* runs with the names exchanged.  "deleted" is the name of the default
\* quarantine directory, which a later run finds in the destination.
NameOrder == <<"a", "b", "c", "deleted">>
\* The relative paths an initial tree may use: one or two components.
RelPaths == {<<n>> : n \in Names} \cup {<<n, m>> : n \in Names, m \in Names}
\* The relative paths of the deeper trees: one to three components.
DeepRelPaths ==
    {<<n>> : n \in DeepNames} \cup {<<n, m>> : n \in DeepNames, m \in DeepNames}
       \cup {<<n, m, l>> : n \in DeepNames, m \in DeepNames, l \in DeepNames}

\* The roots of the run, and a quarantine directory outside both trees.
SRC == <<"src">>
DST == <<"dst">>
QUAR == <<"quar">>
\* A file name the caller's quarantine directory may already hold.
QuarFileName == "a"

\* ------------------------------------------------------------- filesystem
\* A node: its kind, its content (a file's), the creation time and size the
\* scanner reads (a directory's size is never read: -1), and whether the
\* system refuses to remove it whatever it holds (a mount point, a directory
\* the user may not remove).  Time 0 is the time of the run itself.
DirNode == [kind |-> "dir", data |-> <<>>, ctime |-> 0, size |-> -1, busy |-> FALSE]
FileNode(content) ==
    [kind |-> "file", data |-> content, ctime |-> 0, size |-> 1, busy |-> FALSE]

Parent(p) == SubSeq(p, 1, Len(p) - 1)
Prefixes(p) == {SubSeq(p, 1, k) : k \in 1..Len(p)}

\* os.path.exists
exists(f, p) == p \in DOMAIN f
IsDir(f, p) == p \in DOMAIN f /\ f[p].kind = "dir"
IsFile(f, p) == p \in DOMAIN f /\ f[p].kind = "file"
\* The top of the filesystem always is a directory.
ParentIsDir(f, p) == Len(p) = 1 \/ IsDir(f, Parent(p))

\* os.path.join(base, relative_path, name) and DirFile.__str__
join(base, rel) == base \o rel
Str(dir_file) == dir_file.relative_path \o <<dir_file.name>>

\* ------------------------------------------------------------------ scanner
RECURSIVE Flatten(_)
Flatten(ss) == IF Len(ss) = 0 THEN <<>> ELSE Head(ss) \o Flatten(Tail(ss))

\* The names os.walk lists in one directory, by kind, in listing order.
ChildNames(f, base, rel, kind) ==
    SelectSeq(NameOrder, LAMBDA n :
        /\ (base \o rel \o <<n>>) \in DOMAIN f
        /\ f[base \o rel \o <<n>>].kind = kind)

\* DirFileKey(name, creation_time, size); size is None (-1) for a directory.
DirFileKey(name, creation_time, size) ==
    [name |-> name, creation_time |-> creation_time, size |-> size]
\* DirFile(base_path, relative_path, name) on filesystem f.
DirFile(f, base_path, rel, name) ==
    LET full_path == join(base_path, rel \o <<name>>)
    IN  [relative_path |-> rel, name |-> name,
         key |-> DirFileKey(name, f[full_path].ctime,
                            IF f[full_path].kind = "file" THEN f[full_path].size
                            ELSE -1)]

\* os.walk(base_path), top down: the entries of a directory, then those of
\* each of its sub-directories in listing order.
RECURSIVE Walk(_, _, _)
Walk(f, base, rel) ==
    LET dn == ChildNames(f, base, rel, "dir")
        fn == ChildNames(f, base, rel, "file")
        sub == [k \in 1..Len(dn) |-> Walk(f, base, rel \o <<dn[k]>>)]
    IN  [dirs  |-> [k \in 1..Len(dn) |-> DirFile(f, base, rel, dn[k])]
                      \o Flatten([k \in 1..Len(dn) |-> sub[k].dirs]),
         files |-> [k \in 1..Len(fn) |-> DirFile(f, base, rel, fn[k])]
                      \o Flatten([k \in 1..Len(dn) |-> sub[k].files])]

get_directory_contents(f, base_path) ==
    IF IsDir(f, base_path) THEN Walk(f, base_path, <<>>)
    ELSE [dirs |-> <<>>, files |-> <<>>]

\* ------------------------------------------------------------ change sets
NoEntry == [relative_path |-> <<>>, name |-> "", key |-> DirFileKey("", 0, -1)]
NoError == [kind |-> "none", first |-> NoEntry, second |-> NoEntry]
DuplicateNameError(first, second) ==
    [kind |-> "duplicate", first |-> first, second |-> second]
\* 'Names and dir_files lengths don't match, but unable to find duplicate name'
LengthMismatchError == [kind |-> "mismatch", first |-> NoEntry, second |-> NoEntry]

\* A DirFile.__eq__ that compares the identity keys as well.
DirFileEqWithKey(x, y) ==
    x.relative_path = y.relative_path /\ x.name = y.name /\ x.key = y.key
\* DirFile.__eq__ (and __hash__): same relative path and same name.
DirFileEq(x, y) == x.relative_path = y.relative_path /\ x.name = y.name
\* dir_file in set(dir_files)
InSet(dir_file, dir_files) ==
    \E k \in 1..Len(dir_files) : DirFileEq(dir_file, dir_files[k])

Min(S) == CHOOSE x \in S : \A y \in S : x <= y
Max(S) == CHOOSE x \in S : \A y \in S : x >= y

NameSet(dir_files) == {dir_files[k].name : k \in 1..Len(dir_files)}
Positions(dir_files, name) == {k \in 1..Len(dir_files) : dir_files[k].name = name}

\* The keys of {dir_file.name: dir_file for dir_file in dest}, in the order a
\* dict iterates them: the order of first insertion.
DictKeys(dir_files) ==
    LET firsts == SelectSeq([k \in 1..Len(dir_files) |-> k],
                            LAMBDA k : k = Min(Positions(dir_files, dir_files[k].name)))
    IN  [k \in 1..Len(firsts) |-> dir_files[firsts[k]].name]
\* dest_name_to_dirfile_map[name]: the last entry inserted under the name.
MapGet(dir_files, name) == dir_files[Max(Positions(dir_files, name))]

\* The orders in which a set of names may be iterated (hash order).
SetOrders(S) ==
    {o \in [1..Cardinality(S) -> S] : \A k, l \in 1..Cardinality(S) : o[k] = o[l] => k = l}

\* check_duplicate_names(dir_files, names), names in iteration order: the
\* error it raises, or NoError.
check_duplicate_names(dir_files, names) ==
    IF Len(names) # Len(dir_files)
    THEN LET dup == {k \in 1..Len(names) :
                        Cardinality(Positions(dir_files, names[k])) >= 2}
         IN  IF dup = {} THEN LengthMismatchError
             ELSE LET pos == Positions(dir_files, names[Min(dup)])
                      first == Min(pos)
                  IN  DuplicateNameError(dir_files[first],
                                         dir_files[Min(pos \ {first})])
    ELSE NoError

\* A classification that calls missing whatever is not at the same place.
IsMissingByLocation(dir_file, dest) == ~InSet(dir_file, dest)
\* A classification that calls moved whatever name the destination has.
IsMovedByName(dir_file, dest) == dir_file.name \in NameSet(dest)
\* The source entries find_missing_and_moved puts in neither list, in
\* missing, and in moved.
IsMissing(dir_file, dest) ==
    ~InSet(dir_file, dest) /\ dir_file.name \notin NameSet(dest)
IsMoved(dir_file, dest) ==
    ~InSet(dir_file, dest) /\ dir_file.name \in NameSet(dest)

\* A find_missing_and_moved that pairs the destination entry first.
find_missing_and_moved_swapped(src_list, dest_list) ==
    LET mv == SelectSeq(src_list, LAMBDA d : IsMoved(d, dest_list))
    IN  [error   |-> check_duplicate_names(dest_list, DictKeys(dest_list)),
         missing |-> SelectSeq(src_list, LAMBDA d : IsMissing(d, dest_list)),
         moved   |-> [k \in 1..Len(mv) |-> <<MapGet(dest_list, mv[k].name), mv[k]>>]]
find_missing_and_moved(src_list, dest_list) ==
    LET mv == SelectSeq(src_list, LAMBDA d : IsMoved(d, dest_list))
    IN  [error   |-> check_duplicate_names(dest_list, DictKeys(dest_list)),
         missing |-> SelectSeq(src_list, LAMBDA d : IsMissing(d, dest_list)),
         moved   |-> [k \in 1..Len(mv) |-> <<mv[k], MapGet(dest_list, mv[k].name)>>]]

\* A find_deleted that leaves the source names unchecked.
find_deleted_unchecked(src_list, dest_list, names) ==
    [error   |-> NoError,
     deleted |-> SelectSeq(dest_list, LAMBDA d : d.name \notin NameSet(src_list))]
\* A find_deleted that looks for the entry, not for its name, in the source.
find_deleted_by_location(src_list, dest_list, names) ==
    [error   |-> check_duplicate_names(src_list, names),
     deleted |-> SelectSeq(dest_list, LAMBDA d : ~InSet(d, src_list))]
\* names: the iteration order of src_name_set.
find_deleted(src_list, dest_list, names) ==
    [error   |-> check_duplicate_names(src_list, names),
     deleted |-> SelectSeq(dest_list, LAMBDA d : d.name \notin NameSet(src_list))]

NoLists == [missing_dirs |-> <<>>, missing_files |-> <<>>,
            moved_dirs |-> <<>>, moved_files |-> <<>>,
            deleted_dirs |-> <<>>, deleted_files |-> <<>>]
\* What main's six variables hold when get_changes did not return.
NotReturned == [returned |-> FALSE, lists |-> NoLists]

\* get_changes(src, dest) on filesystem f; dir_order and file_order are the
\* iteration orders of the two source name sets.  The first check that
\* fails raises, and then nothing is returned.
get_changes(f, src_path, dest_path, dir_order, file_order) ==
    LET s == get_directory_contents(f, src_path)
        d == get_directory_contents(f, dest_path)
        mm_dirs  == find_missing_and_moved(s.dirs, d.dirs)
        mm_files == find_missing_and_moved(s.files, d.files)
        del_dirs  == find_deleted(s.dirs, d.dirs, dir_order)
        del_files == find_deleted(s.files, d.files, file_order)
        raised == IF mm_dirs.error # NoError THEN mm_dirs.error
                  ELSE IF mm_files.error # NoError THEN mm_files.error
                  ELSE IF del_dirs.error # NoError THEN del_dirs.error
                  ELSE del_files.error
    IN  [error   |-> raised,
         changes |-> IF raised # NoError THEN NotReturned
                     ELSE [returned |-> TRUE,
                           lists |-> [missing_dirs  |-> mm_dirs.missing,
                                      missing_files |-> mm_files.missing,
                                      moved_dirs    |-> mm_dirs.moved,
                                      moved_files   |-> mm_files.moved,
                                      deleted_dirs  |-> del_dirs.deleted,
                                      deleted_files |-> del_files.deleted]]]

\* ------------------------------------------------- executor primitives
\* One entry of the run's record: a phase announced, or an operation tried.
Ev(kind, from, to) == [ev |-> kind, from |-> from, to |-> to]
\* The outcome of a primitive: the filesystem after it, whether it returned
\* (FALSE: it raised), its boolean result and what it did.
Outcome(f, returned, result, kind, from, to) ==
    [fs |-> f, returned |-> returned, result |-> result, ev |-> Ev(kind, from, to)]

Children(f, p) ==
    {q \in DOMAIN f : Len(q) = Len(p) + 1 /\ SubSeq(q, 1, Len(p)) = p}
Under(p, q) == Len(q) >= Len(p) /\ SubSeq(q, 1, Len(p)) = p

\* os.makedirs(p) for a p that does not exist: every missing ancestor is
\* made, unless an ancestor is a file and mkdir raises.
makedirs(f, p) ==
    IF \E a \in Prefixes(p) : IsFile(f, a)
    THEN Outcome(f, FALSE, FALSE, "makedirs_raised", <<>>, p)
    ELSE Outcome([q \in DOMAIN f \cup Prefixes(p) |->
                     IF q \in DOMAIN f THEN f[q] ELSE DirNode],
                 TRUE, TRUE, "created", <<>>, p)

create_directory(f, dir_path) ==
    IF ~exists(f, dir_path) THEN makedirs(f, dir_path)
    ELSE Outcome(f, TRUE, TRUE, "create_exists", <<>>, dir_path)

\* shutil.copyfile(s, d) for a d that does not exist: d's directory must
\* exist and s must be a file, else open() raises.
copyfile(f, s, d) ==
    IF IsFile(f, s) /\ ParentIsDir(f, d)
    THEN Outcome([q \in DOMAIN f \cup {d} |->
                     IF q = d THEN [f[s] EXCEPT !.ctime = 0, !.busy = FALSE]
                     ELSE f[q]],
                 TRUE, TRUE, "copied", s, d)
    ELSE Outcome(f, FALSE, FALSE, "copy_raised", s, d)

copy_file(f, src_path, dest_path) ==
    IF ~exists(f, src_path)
    THEN Outcome(f, TRUE, TRUE, "copy_no_source", src_path, dest_path)
    ELSE IF exists(f, dest_path)
    THEN Outcome(f, TRUE, TRUE, "copy_target_exists", src_path, dest_path)
    ELSE copyfile(f, src_path, dest_path)

\* shutil.move(s, d) for a d that does not exist: a rename of s and of all
\* beneath it; when d's directory is missing, rename and the fallback copy
\* both raise and s stays.
move(f, s, d) ==
    IF ParentIsDir(f, d) /\ ~Under(s, d)
    THEN LET kept == {q \in DOMAIN f : ~Under(s, q)}
             new  == {d \o SubSeq(q, Len(s) + 1, Len(q)) : q \in DOMAIN f \ kept}
         IN  Outcome([q \in kept \cup new |->
                         IF q = d THEN [f[s] EXCEPT !.ctime = 0]
                         ELSE IF q \in new
                         THEN f[s \o SubSeq(q, Len(d) + 1, Len(q))]
                         ELSE f[q]],
                     TRUE, TRUE, "moved", s, d)
    ELSE Outcome(f, FALSE, FALSE, "move_raised", s, d)

\* A move_file that does not look whether dest_path exists.
move_file_unchecked(f, src_path, dest_path) ==
    IF ~exists(f, src_path)
    THEN Outcome(f, TRUE, TRUE, "move_no_source", src_path, dest_path)
    ELSE move(f, src_path, dest_path)
move_file(f, src_path, dest_path) ==
    IF ~exists(f, src_path)
    THEN Outcome(f, TRUE, TRUE, "move_no_source", src_path, dest_path)
    ELSE IF exists(f, dest_path)
    THEN Outcome(f, TRUE, TRUE, "move_target_exists", src_path, dest_path)
    ELSE move(f, src_path, dest_path)

\* A removal of the directory with all it holds, as shutil.rmtree does.
rmtree(f, p) ==
    IF IsDir(f, p)
    THEN Outcome([q \in {x \in DOMAIN f : ~Under(p, x)} |-> f[q]],
                 TRUE, TRUE, "rmdir", p, <<>>)
    ELSE Outcome(f, FALSE, FALSE, "rmdir_raised", p, <<>>)
\* os.rmdir(p): removes an empty directory, raises OSError otherwise: the
\* directory is not empty, is no directory, or the system refuses.
rmdir(f, p) ==
    IF IsDir(f, p) /\ Children(f, p) = {} /\ ~f[p].busy
    THEN Outcome([q \in DOMAIN f \ {p} |-> f[q]], TRUE, TRUE, "rmdir", p, <<>>)
    ELSE Outcome(f, FALSE, FALSE, "rmdir_raised", p, <<>>)

\* A delete_directory that answers True when rmdir raised.
delete_directory_forgetful(f, dir_path) ==
    IF ~exists(f, dir_path)
    THEN Outcome(f, TRUE, TRUE, "rmdir_absent", dir_path, <<>>)
    ELSE LET r == rmdir(f, dir_path)
         IN  IF r.returned THEN r
             ELSE Outcome(f, TRUE, TRUE, "rmdir_failed", dir_path, <<>>)
\* delete_directory: the OSError of rmdir is caught and answered False.
delete_directory(f, dir_path) ==
    IF ~exists(f, dir_path)
    THEN Outcome(f, TRUE, TRUE, "rmdir_absent", dir_path, <<>>)
    ELSE LET r == rmdir(f, dir_path)
         IN  IF r.returned THEN r
             ELSE Outcome(f, TRUE, FALSE, "rmdir_failed", dir_path, <<>>)

\* ------------------------------------------------------------------ state
VARIABLES
    argv,                  \* the arguments the program was started with
    run,                   \* how many times the program was started
    fs,                    \* the filesystem: absolute path -> node
    fs0,                   \* the filesystem when main was called
    src, dest,             \* main's arguments: the two roots
    delete_move_dir_path,  \* main's argument: the quarantine path or NoPath
    sync,                  \* main's argument
    pc,                    \* where main is
    changes,               \* the six lists get_changes returned
    error,                 \* the exception that left main, or NoError
    i,                     \* the index of the running loop
    dirs_not_deleted,      \* delete_dirs' list of paths to retry
    log                    \* the phases announced and operations tried

vars == <<argv, run, fs, fs0, src, dest, delete_move_dir_path, sync, pc, changes, error,
          i, dirs_not_deleted, log>>

\* delete_move_dir_path is None
NoPath == <<>>

\* ---------------------------------------------------------- initial states
TreeShapes ==
    {S \in SUBSET RelPaths :
        /\ Cardinality(S) <= MaxNodes
        /\ \A p \in S : Len(p) > 1 => Parent(p) \in S}
\* A tree: relative path -> kind, the inner nodes being directories.
Trees ==
    UNION {{t \in [S -> {"dir", "file"}] :
                \A p \in S : Len(p) > 1 => t[Parent(p)] = "dir"} : S \in TreeShapes}
EmptyTree == CHOOSE t \in Trees : DOMAIN t = {}

\* What the caller's quarantine path names at the start.
QuarStates == {"absent", "empty", "holds_file"}

\* The creation time and size a scan reads from an entry made before the
\* run: those of the source entries, and those the destination entries may
\* have.
OldMeta == [ctime |-> 1, size |-> 1]
Metas == [ctime : {1, 2}, size : {1, 2}]

\* The filesystem holding tree ts under SRC and td under DST.  The content
\* of a file is named after the place it has at the start, so that a file is
\* known by its content wherever the run puts it.  The destination entries
\* carry the creation time and size dmeta, and the paths of busy are busy.
MkFsWith(ts, td, quar, dmeta, busy) ==
    LET qpaths == IF quar = "absent" THEN {}
                  ELSE IF quar = "empty" THEN {QUAR}
                  ELSE {QUAR, QUAR \o <<QuarFileName>>}
        dom == {SRC, DST} \cup {SRC \o p : p \in DOMAIN ts}
                 \cup {DST \o p : p \in DOMAIN td} \cup qpaths
        kind(q) == IF q \in {SRC, DST, QUAR} THEN "dir"
                   ELSE IF q[1] = QUAR[1] THEN "file"
                   ELSE IF q[1] = SRC[1] THEN ts[Tail(q)] ELSE td[Tail(q)]
        meta(q) == IF Len(q) > 1 /\ q[1] = DST[1] THEN dmeta ELSE OldMeta
    IN  [q \in dom |->
            IF kind(q) = "dir"
            THEN [DirNode EXCEPT !.ctime = meta(q).ctime, !.busy = q \in busy]
            ELSE [FileNode(q) EXCEPT !.ctime = meta(q).ctime,
                                     !.size = meta(q).size]]
MkFs(ts, td, quar) == MkFsWith(ts, td, quar, OldMeta, {})

\* --sync was not on the command line.
NotGiven == "<not given>"
\* The command line of a run whose parsed arguments are s and path.
Argv(s, path) == [sync |-> IF s THEN "True" ELSE NotGiven, delete_dir |-> path]

Init ==
    /\ \E ts \in Trees, td \in Trees, quar \in QuarStates, same \in BOOLEAN :
        /\ same => ts = EmptyTree
        /\ src = IF same THEN DST ELSE SRC
        /\ fs = MkFs(ts, td, quar)
        /\ delete_move_dir_path \in
              IF quar = "absent" THEN {NoPath, QUAR} ELSE {QUAR}
    /\ fs0 = fs
    /\ dest = DST
    /\ sync \in BOOLEAN
    /\ argv = Argv(sync, delete_move_dir_path)
    /\ run = 1
    /\ pc = "get_changes"
    /\ changes = NotReturned
    /\ error = NoError
    /\ i = 1
    /\ dirs_not_deleted = <<>>
    /\ log = <<>>

\* ------------------------------------------------------------------- main
\* A main that removes the directories before it relocates the files.
MainOrderDirsFirst ==
    <<"create_required_directories", "copy_missing_files", "move_files",
      "delete_dirs", "delete_files">>
\* main, lines 265-269: the five calls of the executor, in order.
MainOrder ==
    <<"create_required_directories", "copy_missing_files", "move_files",
      "delete_files", "delete_dirs">>
\* Where main goes when the call of phase name returns.
NextPhase(name) ==
    LET k == CHOOSE l \in 1..Len(MainOrder) : MainOrder[l] = name
    IN  IF k < Len(MainOrder) THEN MainOrder[k + 1] ELSE "done"

\* A main that runs the executor whatever sync is.
AfterReportIgnoringSync(s) == "quarantine"
\* Where main goes once the six lists are printed: line 259, 'if sync:'.
AfterReport(s) == IF s THEN "quarantine" ELSE "done"
\* A main that catches the error of get_changes and goes on.
OnDuplicateGoOn == "quarantine"
\* Where main goes when get_changes raises: the exception leaves main.
OnDuplicate == "aborted"

\* main, lines 250-259: get_changes and the six print_list calls.
GetChanges ==
    /\ pc = "get_changes"
    /\ \E dir_order \in SetOrders(NameSet(get_directory_contents(fs, src).dirs)),
          file_order \in SetOrders(NameSet(get_directory_contents(fs, src).files)) :
        LET r == get_changes(fs, src, dest, dir_order, file_order)
        IN  /\ error' = r.error
            /\ changes' = r.changes
            /\ pc' = IF r.error # NoError THEN OnDuplicate ELSE AfterReport(sync)
    /\ UNCHANGED <<argv, run, fs, fs0, src, dest, delete_move_dir_path, sync, i,
                   dirs_not_deleted, log>>

\* The exception of a primitive leaves main.
Raise(o) ==
    /\ pc' = "crashed"
    /\ error' = [kind |-> o.ev.ev, first |-> NoEntry, second |-> NoEntry]

\* main, lines 260-263: the default quarantine directory.
DefaultQuarantine(d) == join(d, <<"deleted">>)
\* Whether main makes the quarantine directory: only the default one.
CreatesQuarantine(path) == path = NoPath

Quarantine ==
    /\ pc = "quarantine"
    /\ IF CreatesQuarantine(delete_move_dir_path)
       THEN LET path == DefaultQuarantine(dest)
                o == create_directory(fs, path)
            IN  /\ delete_move_dir_path' = path
                /\ IF exists(fs, path)
                   THEN /\ pc' = MainOrder[1]
                        /\ UNCHANGED <<fs, log, error>>
                   ELSE /\ fs' = o.fs
                        /\ log' = Append(log, o.ev)
                        /\ IF o.returned
                           THEN pc' = MainOrder[1] /\ UNCHANGED error
                           ELSE Raise(o)
       ELSE /\ pc' = MainOrder[1]
            /\ UNCHANGED <<fs, log, error, delete_move_dir_path>>
    /\ i' = 1
    /\ UNCHANGED <<argv, run, fs0, src, dest, sync, changes, dirs_not_deleted>>

\* ------------------------------------------------------ executor phases
Reverse(q) == [k \in 1..Len(q) |-> q[Len(q) + 1 - k]]

\* The print that opens a phase, made before its first iteration.
Header(name) == IF i = 1 THEN <<Ev(name, <<>>, <<>>)>> ELSE <<>>

\* One iteration of a phase's loop over work, or the return to main when
\* the loop is over; o is the outcome of the primitive on item i.
PhaseStep(name, next, work, o) ==
    /\ pc = name
    /\ IF i <= Len(work)
       THEN /\ fs' = o.fs
            /\ log' = log \o Header(name) \o <<o.ev>>
            /\ IF o.returned
               THEN pc' = name /\ i' = i + 1 /\ UNCHANGED error
               ELSE Raise(o) /\ i' = i
       ELSE /\ pc' = next
            /\ i' = 1
            /\ log' = log \o Header(name)
            /\ UNCHANGED <<fs, error>>
    /\ UNCHANGED <<argv, run, fs0, src, dest, delete_move_dir_path, sync, changes,
                   dirs_not_deleted>>

\* A create_required_directories that leaves the moved directories out.
CreateWorkMissingOnly(d, missing, moved) ==
    [k \in 1..Len(missing) |-> join(d, Str(missing[k]))]
\* create_required_directories(dest, missing, moved): the paths it creates,
\* the missing ones and then the first entry of each moved pair.
CreateWork(d, missing, moved) ==
    [k \in 1..Len(missing) |-> join(d, Str(missing[k]))]
       \o [k \in 1..Len(moved) |-> join(d, Str(moved[k][1]))]

CreateRequiredDirectories ==
    LET work == CreateWork(dest, changes.lists.missing_dirs, changes.lists.moved_dirs)
    IN  PhaseStep("create_required_directories",
                  NextPhase("create_required_directories"), work,
                  create_directory(fs, work[i]))

\* copy_missing_files(src, dest, missing): <<src_path, dest_path>> per file.
CopyWork(s, d, missing) ==
    [k \in 1..Len(missing) |-> <<join(s, Str(missing[k])), join(d, Str(missing[k]))>>]

CopyMissingFiles ==
    LET work == CopyWork(src, dest, changes.lists.missing_files)
    IN  PhaseStep("copy_missing_files", NextPhase("copy_missing_files"), work,
                  copy_file(fs, work[i][1], work[i][2]))

\* A move_files that moves from the first entry of a pair to the second.
MoveWorkFromFirst(base_path, moved) ==
    [k \in 1..Len(moved) |->
        <<join(base_path, Str(moved[k][1])), join(base_path, Str(moved[k][2]))>>]
\* move_files(base_path, moved): for (new_dir_file, orig_dir_file) in moved,
\* <<src_path, dest_path>> = <<base/orig, base/new>>.
MoveWork(base_path, moved) ==
    [k \in 1..Len(moved) |->
        <<join(base_path, Str(moved[k][2])), join(base_path, Str(moved[k][1]))>>]

MoveFiles ==
    LET work == MoveWork(dest, changes.lists.moved_files)
    IN  PhaseStep("move_files", NextPhase("move_files"), work,
                  move_file(fs, work[i][1], work[i][2]))

\* delete_files(base_path, deleted, delete_move_dir_path): each deleted file
\* is moved to the quarantine directory under its own name.
DeleteFilesWork(base_path, deleted, quarantine) ==
    [k \in 1..Len(deleted) |->
        <<join(base_path, Str(deleted[k])), join(quarantine, <<deleted[k].name>>)>>]

DeleteFiles ==
    LET work == DeleteFilesWork(dest, changes.lists.deleted_files,
                                delete_move_dir_path)
    IN  PhaseStep("delete_files", NextPhase("delete_files"), work,
                  move_file(fs, work[i][1], work[i][2]))

\* A delete_dirs that takes the two lists in the order they have.
DeleteDirsWorkForward(base_path, moved, deleted) ==
    [k \in 1..Len(deleted) |-> join(base_path, Str(deleted[k]))]
       \o [k \in 1..Len(moved) |-> join(base_path, Str(moved[k][2]))]
\* delete_dirs, lines 216-223: the deleted directories in reverse, then the
\* second entry of each moved pair in reverse.
DeleteDirsWork(base_path, moved, deleted) ==
    LET rd == Reverse(deleted)
        rm == Reverse(moved)
    IN  [k \in 1..Len(rd) |-> join(base_path, Str(rd[k]))]
           \o [k \in 1..Len(rm) |-> join(base_path, Str(rm[k][2]))]

DeleteDirs ==
    /\ pc = "delete_dirs"
    /\ LET work == DeleteDirsWork(dest, changes.lists.moved_dirs,
                                  changes.lists.deleted_dirs)
       IN  IF i <= Len(work)
           THEN LET o == delete_directory(fs, work[i])
                IN  /\ fs' = o.fs
                    /\ log' = log \o Header("delete_dirs") \o <<o.ev>>
                    /\ dirs_not_deleted' =
                          IF o.result THEN dirs_not_deleted
                          ELSE Append(dirs_not_deleted, work[i])
                    /\ pc' = pc
                    /\ i' = i + 1
           ELSE /\ pc' = "delete_dirs_retry"
                /\ i' = 1
                /\ log' = log \o Header("delete_dirs")
                /\ UNCHANGED <<fs, dirs_not_deleted>>
    /\ UNCHANGED <<argv, run, fs0, src, dest, delete_move_dir_path, sync, changes, error>>

\* One sweep of the while loop, lines 227-230: delete_directory on each
\* pending path in turn, on the filesystem the earlier ones left.
RECURSIVE Sweep(_, _)
Sweep(f, pending) ==
    IF Len(pending) = 0 THEN [fs |-> f, remaining |-> <<>>, evs |-> <<>>]
    ELSE LET o == delete_directory(f, Head(pending))
             rest == Sweep(o.fs, Tail(pending))
         IN  [fs |-> rest.fs,
              remaining |-> (IF o.result THEN <<>> ELSE <<Head(pending)>>)
                               \o rest.remaining,
              evs |-> <<o.ev>> \o rest.evs]

\* A delete_dirs that makes one sweep and returns, whatever it removed.
DeleteDirsRetryOnce ==
    /\ pc = "delete_dirs_retry"
    /\ IF Len(dirs_not_deleted) > 0
       THEN LET r == Sweep(fs, dirs_not_deleted)
            IN  /\ fs' = r.fs
                /\ i' = i + 1
                /\ log' = log \o r.evs
                /\ pc' = NextPhase("delete_dirs")
                /\ dirs_not_deleted' = r.remaining
       ELSE /\ pc' = NextPhase("delete_dirs")
            /\ UNCHANGED <<fs, i, dirs_not_deleted, log>>
    /\ UNCHANGED <<argv, run, fs0, src, dest, delete_move_dir_path, sync,
                   changes, error>>
\* delete_dirs, lines 225-235: one iteration of the while loop, or its exit.
DeleteDirsRetry ==
    /\ pc = "delete_dirs_retry"
    /\ IF Len(dirs_not_deleted) > 0
       THEN LET begin_size == Len(dirs_not_deleted)
                r == Sweep(fs, dirs_not_deleted)
            IN  /\ fs' = r.fs
                /\ i' = i + 1
                /\ IF Len(r.remaining) = begin_size
                   THEN /\ log' = log \o r.evs \o <<Ev("not_deleted", <<>>, <<>>)>>
                        /\ pc' = NextPhase("delete_dirs")
                        /\ UNCHANGED dirs_not_deleted
                   ELSE /\ log' = log \o r.evs
                        /\ pc' = pc
                        /\ dirs_not_deleted' = r.remaining
       ELSE /\ pc' = NextPhase("delete_dirs")
            /\ UNCHANGED <<fs, i, dirs_not_deleted, log>>
    /\ UNCHANGED <<argv, run, fs0, src, dest, delete_move_dir_path, sync, changes, error>>

Next ==
    \/ GetChanges
    \/ Quarantine
    \/ CreateRequiredDirectories
    \/ CopyMissingFiles
    \/ MoveFiles
    \/ DeleteFiles
    \/ DeleteDirs
    \/ DeleteDirsRetry

Spec == Init /\ [][Next]_vars

\* ------------------------------------------- small trees, varied entries
\* The trees of fewer than MaxNodes entries.
SmallTrees == {t \in Trees : Cardinality(DOMAIN t) < MaxNodes}
\* The directories of tree t under base.
DirPaths(base, t) == {join(base, p) : p \in {q \in DOMAIN t : t[q] = "dir"}}

\* main called on small trees whose destination entries carry any creation
\* time and size, one destination directory at most being busy; the
\* quarantine directory is the default one.
InitSmall ==
    /\ \E ts \in SmallTrees, td \in SmallTrees, dmeta \in Metas :
        \E busy \in {{}} \cup {{p} : p \in DirPaths(DST, td)} :
            fs = MkFsWith(ts, td, "absent", dmeta, busy)
    /\ fs0 = fs
    /\ src = SRC
    /\ dest = DST
    /\ delete_move_dir_path = NoPath
    /\ sync \in BOOLEAN
    /\ argv = Argv(sync, delete_move_dir_path)
    /\ run = 1
    /\ pc = "get_changes"
    /\ changes = NotReturned
    /\ error = NoError
    /\ i = 1
    /\ dirs_not_deleted = <<>>
    /\ log = <<>>

SpecSmall == InitSmall /\ [][Next]_vars

\* ------------------------------------------------------- the command line
\* bool(word): argparse applies type=bool to the word that follows --sync.
Bool(word) == word # ""
\* args.sync: the default False when --sync is not given.
parse_sync(word) == IF word = NotGiven THEN FALSE ELSE Bool(word)

\* Lines 274-282: the arguments are parsed and main is called.
ParseArgs ==
    /\ pc = "parse_args"
    /\ sync' = parse_sync(argv.sync)
    /\ delete_move_dir_path' = argv.delete_dir
    /\ pc' = "get_changes"
    /\ UNCHANGED <<argv, run, fs, fs0, src, dest, changes, error, i,
                   dirs_not_deleted, log>>

\* The program, once it has ended, is started again on the same command
\* line and on the filesystem the last run left.
Rerun ==
    /\ pc = "done"
    /\ run < MaxRuns
    /\ run' = run + 1
    /\ pc' = "parse_args"
    /\ fs0' = fs
    /\ sync' = FALSE
    /\ delete_move_dir_path' = NoPath
    /\ changes' = NotReturned
    /\ error' = NoError
    /\ i' = 1
    /\ dirs_not_deleted' = <<>>
    /\ log' = <<>>
    /\ UNCHANGED <<argv, fs, src, dest>>

\* The words that may follow --sync.
SyncWords == {NotGiven, "True", "False", ""}

\* The program started from the command line on small trees, with the
\* default quarantine directory or the caller's, which is there and empty.
InitCli ==
    /\ \E ts \in SmallTrees, td \in SmallTrees, word \in SyncWords,
          path \in {NoPath, QUAR} :
        /\ fs = MkFs(ts, td, IF path = NoPath THEN "absent" ELSE "empty")
        /\ argv = [sync |-> word, delete_dir |-> path]
    /\ run = 1
    /\ fs0 = fs
    /\ src = SRC
    /\ dest = DST
    /\ delete_move_dir_path = NoPath
    /\ sync = FALSE
    /\ pc = "parse_args"
    /\ changes = NotReturned
    /\ error = NoError
    /\ i = 1
    /\ dirs_not_deleted = <<>>
    /\ log = <<>>

NextCli ==
    \/ ParseArgs
    \/ Rerun
    \/ Next

SpecCli == InitCli /\ [][NextCli]_vars

\* ------------------------------------------------ three nested directories
\* The sets of at most n relative paths closed under parents.
RECURSIVE DeepShapes(_)
DeepShapes(n) ==
    IF n = 0 THEN {{}}
    ELSE LET less == DeepShapes(n - 1)
         IN  less \cup UNION {{S \cup {p} :
                                   p \in {q \in DeepRelPaths :
                                             Len(q) > 1 => Parent(q) \in S}}
                                : S \in less}
\* The destination trees: directories nested up to three deep and at most
\* one file, of the name the quarantine directory may hold.
DeepDestTrees ==
    UNION {{t \in [S -> {"dir", "file"}] :
                /\ \A p \in S : Len(p) > 1 => t[Parent(p)] = "dir"
                /\ \A p \in S : t[p] = "file" => p[Len(p)] = QuarFileName
                /\ Cardinality({p \in S : t[p] = "file"}) <= 1}
              : S \in DeepShapes(MaxNodes)}
\* The source trees: directories only, nested up to two deep, of fewer
\* names than there are.
DeepSrcTrees ==
    {[p \in S |-> "dir"] :
        S \in {R \in DeepShapes(Cardinality(DeepNames) - 1) :
                  \A p \in R : Len(p) < Cardinality(DeepNames)}}

\* main(sync = True) on the deeper trees, the caller's quarantine directory
\* being there, empty or holding a file.
InitDeep ==
    /\ \E ts \in DeepSrcTrees, td \in DeepDestTrees,
          quar \in {"empty", "holds_file"} :
        /\ quar = "holds_file" => \E p \in DOMAIN td : td[p] = "file"
        /\ fs = MkFs(ts, td, quar)
    /\ fs0 = fs
    /\ src = SRC
    /\ dest = DST
    /\ delete_move_dir_path = QUAR
    /\ sync = TRUE
    /\ argv = Argv(sync, delete_move_dir_path)
    /\ run = 1
    /\ pc = "get_changes"
    /\ changes = NotReturned
    /\ error = NoError
    /\ i = 1
    /\ dirs_not_deleted = <<>>
    /\ log = <<>>

SpecDeep == InitDeep /\ [][Next]_vars

\* ------------------------------------------------------------- properties
\* The four collections get_changes scanned, as they were when main began.
SrcDirs0   == get_directory_contents(fs0, src).dirs
SrcFiles0  == get_directory_contents(fs0, src).files
DestDirs0  == get_directory_contents(fs0, dest).dirs
DestFiles0 == get_directory_contents(fs0, dest).files

\* Two entries at different positions of a collection carry one name.
HasTwoOfAName(c) ==
    \E k, l \in 1..Len(c) : k # l /\ c[k].name = c[l].name
\* The position of an entry in a collection (a scan lists an entry once).
IndexOf(c, e) == CHOOSE k \in 1..Len(c) : c[k] = e
SomeListNonEmpty ==
    \E n \in DOMAIN changes.lists : changes.lists[n] # <<>>

\* C1. Dry run: with sync = FALSE the filesystem (both trees and the
\* quarantine directory) is at every moment what it was when main was called,
\* whether get_changes returned or raised.
DryRunNoMutation == ~sync => fs = fs0
\* A dry run that returned a non-empty change set and ended.
DryRunWitness ==
    ~sync /\ pc = "done" /\ changes.returned /\ SomeListNonEmpty
        /\ changes.lists.deleted_files # <<>>

\* C2. When get_changes raised the duplicate-name error, nothing was created,
\* copied, moved or removed, no phase was announced, and main is over.
DuplicateAbortsBeforeMutation ==
    error.kind = "duplicate" => fs = fs0 /\ log = <<>> /\ pc = "aborted"
\* A sync run, with the default quarantine directory, that the error ended.
DuplicateAbortWitness ==
    /\ sync /\ pc = "aborted" /\ error.kind = "duplicate"
    /\ delete_move_dir_path = NoPath
    /\ ~exists(fs, DefaultQuarantine(dest))

\* C3. get_changes raises exactly when one of the four scanned collections
\* holds two entries of one name; the error names two different entries of
\* one collection that share a name, and no list is returned.
DuplicateDetection ==
    LET colls == {SrcDirs0, SrcFiles0, DestDirs0, DestFiles0}
    IN  pc # "get_changes" =>
          /\ (pc = "aborted") <=> (\E c \in colls : HasTwoOfAName(c))
          /\ pc # "aborted" => changes.returned
          /\ pc = "aborted" =>
                /\ changes = NotReturned
                /\ error.kind = "duplicate"
                /\ error.first # error.second
                /\ error.first.name = error.second.name
                /\ \E c \in colls : \E k, l \in 1..Len(c) :
                      k # l /\ c[k] = error.first /\ c[l] = error.second
\* The error raised by the last of the four checks: only the source files
\* hold a duplicate.
DuplicateDetectionWitness ==
    /\ pc = "aborted"
    /\ HasTwoOfAName(SrcFiles0)
    /\ ~HasTwoOfAName(SrcDirs0) /\ ~HasTwoOfAName(DestDirs0)
    /\ ~HasTwoOfAName(DestFiles0)

\* C4. The change set of a tree against itself: when the tree holds no two
\* same-kind entries of one name, get_changes returns six empty lists;
\* when it holds two, get_changes raises.
IdentityOfEmptyDiff ==
    (src = dest /\ pc # "get_changes") =>
        IF HasTwoOfAName(DestDirs0) \/ HasTwoOfAName(DestFiles0)
        THEN pc = "aborted" /\ ~changes.returned
        ELSE changes.returned /\ changes.lists = NoLists
\* The claim as first stated: for any tree, six empty lists are returned.
IdentityOfEmptyDiffAnyTree ==
    (src = dest /\ pc # "get_changes") =>
        changes.returned /\ changes.lists = NoLists
\* A tree with directories and files compared with itself.
IdentityOfEmptyDiffWitness ==
    /\ src = dest /\ pc = "done" /\ changes.returned
    /\ Len(DestDirs0) >= 1 /\ Len(DestFiles0) >= 2

\* moved is the list, in source order, of the pairs <<s, d>> of a source
\* entry and the destination entry of its name at another relative path.
MovedExactly(S, D, moved, missing, deleted) ==
    /\ \A k \in 1..Len(moved) : \E a \in 1..Len(S), b \in 1..Len(D) :
          /\ moved[k] = <<S[a], D[b]>>
          /\ S[a].name = D[b].name
          /\ S[a].relative_path # D[b].relative_path
          /\ \A c \in 1..Len(D) : D[c].name = S[a].name => c = b
    /\ \A a \in 1..Len(S), b \in 1..Len(D) :
          (S[a].name = D[b].name /\ S[a].relative_path # D[b].relative_path)
             => \E k \in 1..Len(moved) : moved[k] = <<S[a], D[b]>>
    /\ \A k, l \in 1..Len(moved) :
          k < l => IndexOf(S, moved[k][1]) < IndexOf(S, moved[l][1])
    /\ \A k \in 1..Len(moved) :
          moved[k][1].name \notin NameSet(missing) \cup NameSet(deleted)

\* C5. Move detection, for directories and for files.
MoveDetection ==
    changes.returned =>
        /\ MovedExactly(SrcDirs0, DestDirs0, changes.lists.moved_dirs,
                        changes.lists.missing_dirs, changes.lists.deleted_dirs)
        /\ MovedExactly(SrcFiles0, DestFiles0, changes.lists.moved_files,
                        changes.lists.missing_files, changes.lists.deleted_files)
\* Two files moved in one run.
MoveDetectionWitness ==
    changes.returned /\ Len(changes.lists.moved_files) = 2

\* sel is the list, in the order of collection C, of the entries of C whose
\* name no entry of collection O carries.
NamelessExactly(C, O, sel) ==
    /\ \A k \in 1..Len(sel) : \E a \in 1..Len(C) :
          sel[k] = C[a] /\ \A b \in 1..Len(O) : O[b].name # C[a].name
    /\ \A a \in 1..Len(C) :
          (\A b \in 1..Len(O) : O[b].name # C[a].name)
             => \E k \in 1..Len(sel) : sel[k] = C[a]
    /\ \A k, l \in 1..Len(sel) :
          k < l => IndexOf(C, sel[k]) < IndexOf(C, sel[l])

\* C6. Pure addition: missing is the source entries, in source order, whose
\* name is at no path of the destination.
PureAddition ==
    changes.returned =>
        /\ NamelessExactly(SrcDirs0, DestDirs0, changes.lists.missing_dirs)
        /\ NamelessExactly(SrcFiles0, DestFiles0, changes.lists.missing_files)
\* Two directories missing while a source file is moved, not missing.
PureAdditionWitness ==
    /\ changes.returned
    /\ Len(changes.lists.missing_dirs) = 2
    /\ Len(changes.lists.moved_files) = 1

\* C7. Pure removal: deleted is the destination entries, in destination
\* order, whose name is at no path of the source.
PureRemoval ==
    changes.returned =>
        /\ NamelessExactly(DestDirs0, SrcDirs0, changes.lists.deleted_dirs)
        /\ NamelessExactly(DestFiles0, SrcFiles0, changes.lists.deleted_files)
\* Two directories deleted while a destination file is moved, not deleted.
PureRemovalWitness ==
    /\ changes.returned
    /\ Len(changes.lists.deleted_dirs) = 2
    /\ Len(changes.lists.moved_files) = 1

\* The <<src_path, dest_path>> pairs of the copy or move loop main is in.
CopyMoveWork ==
    IF pc = "copy_missing_files"
    THEN CopyWork(src, dest, changes.lists.missing_files)
    ELSE IF pc = "move_files" THEN MoveWork(dest, changes.lists.moved_files)
    ELSE IF pc = "delete_files"
    THEN DeleteFilesWork(dest, changes.lists.deleted_files, delete_move_dir_path)
    ELSE <<>>
SkipEvents == {"copy_no_source", "copy_target_exists",
               "move_no_source", "move_target_exists"}

\* C8. Non-overwrite: no step changes what is stored at a path that exists
\* before and after it; a copy or move whose target exists or whose origin
\* does not is reported and skipped, the loop going on; any other copy or
\* move writes at most its target path, where nothing was.
NonOverwrite ==
    [][/\ \A p \in DOMAIN fs \cap DOMAIN fs' : fs'[p] = fs[p]
       /\ i <= Len(CopyMoveWork) =>
             LET s == CopyMoveWork[i][1]
                 d == CopyMoveWork[i][2]
             IN  IF ~exists(fs, s) \/ exists(fs, d)
                 THEN /\ fs' = fs
                      /\ Len(log') > Len(log)
                      /\ log'[Len(log')].ev \in SkipEvents
                      /\ log'[Len(log')].to = d
                      /\ pc' = pc /\ i' = i + 1
                 ELSE DOMAIN fs' \ DOMAIN fs \subseteq {d}]_vars
\* A run that skipped a copy and a move to quarantine because the target
\* existed, and a file the target held is as it was.
NonOverwriteWitness ==
    /\ \E k \in 1..Len(log) : log[k].ev = "copy_target_exists"
    /\ \E k \in 1..Len(log) :
          /\ log[k].ev = "move_target_exists"
          /\ IsFile(fs0, log[k].to)
          /\ IsFile(fs, log[k].to)
          /\ fs[log[k].to] = fs0[log[k].to]
          /\ IsFile(fs, log[k].from)

\* The files the destination tree held when main was called.
DestFilePaths0 == {p \in DOMAIN fs0 : Under(dest, p) /\ fs0[p].kind = "file"}
\* Where the run may have put the file that was at p: where the first entry
\* of its moved pair is, and in the quarantine directory under its name.
MovedTo(p) ==
    {join(dest, Str(changes.lists.moved_files[k][1])) :
        k \in {l \in 1..Len(changes.lists.moved_files) :
                  join(dest, Str(changes.lists.moved_files[l][2])) = p}}
Quarantined(p) == join(delete_move_dir_path, <<p[Len(p)]>>)
HoldsContentOf(q, p) == IsFile(fs, q) /\ fs[q].data = fs0[p].data

\* C9. No file is erased: when a sync run is over, every file the destination
\* held at the start is, with its content, at exactly one of its first path,
\* the path of the source-side entry of its moved pair, or the quarantine
\* directory under its name.
NoFileErased ==
    (sync /\ pc = "done") =>
        \A p \in DestFilePaths0 :
            Cardinality({q \in {p, Quarantined(p)} \cup MovedTo(p) :
                            HoldsContentOf(q, p)}) = 1
\* A run that put one file in quarantine, moved another and is over.
NoFileErasedWitness ==
    /\ sync /\ pc = "done"
    /\ \E p \in DestFilePaths0 : ~exists(fs, p) /\ HoldsContentOf(Quarantined(p), p)
    /\ \E p \in DestFilePaths0 : \E q \in MovedTo(p) : HoldsContentOf(q, p)

\* C10. The quarantine directory is there when delete_files is about to
\* relocate a file, be the path the default or the caller's.
QuarantineExistsBeforeRelocation ==
    (pc = "delete_files"
        /\ i <= Len(changes.lists.deleted_files)
        /\ exists(fs, CopyMoveWork[i][1]))
      => IsDir(fs, delete_move_dir_path)

\* The directories delete_dirs is to remove, and those of them still there.
ListedDirs ==
    LET work == DeleteDirsWork(dest, changes.lists.moved_dirs,
                               changes.lists.deleted_dirs)
    IN  {work[k] : k \in 1..Len(work)}
Range(q) == {q[k] : k \in 1..Len(q)}

\* C11. When the directory-deletion phase of a sync run is over, a listed
\* directory (deleted, or the second entry of a moved pair) is there exactly
\* when it still holds a file or a directory; the list delete_dirs is left
\* with is exactly the listed directories that are there, and it is
\* reported exactly when it is not empty.
FixedPointDeletion ==
    (sync /\ pc = "done") =>
        /\ \A d \in ListedDirs : exists(fs, d) <=> Children(fs, d) # {}
        /\ Range(dirs_not_deleted) = {d \in ListedDirs : exists(fs, d)}
        /\ (dirs_not_deleted # <<>>)
              <=> (log # <<>> /\ log[Len(log)].ev = "not_deleted")
\* Three nested listed directories p, p/q, p/q/r are all gone, the first
\* pass having left two of them to the sweeps.
FixedPointDeletionWitness ==
    /\ sync /\ pc = "done" /\ i >= 3
    /\ \E d \in ListedDirs :
          /\ Len(d) = Len(dest) + 3
          /\ \A k \in 1..2 : SubSeq(d, 1, Len(d) - k) \in ListedDirs
          /\ \A k \in 0..2 : ~exists(fs, SubSeq(d, 1, Len(d) - k))

\* C12. Started with '--sync False', main receives sync = FALSE: once the
\* arguments are parsed the run is a dry run, in which no phase is announced
\* and the filesystem stays what it was.
CommandLineDryRun ==
    (argv.sync = "False" /\ pc # "parse_args") =>
        /\ ~sync
        /\ log = <<>>
        /\ fs = fs0

\* The entries of the log between the announcement of a phase and the next
\* announcement.
PhaseEvents(name) ==
    LET at == {k \in 1..Len(log) : log[k].ev = name}
        later == {k \in 1..Len(log) :
                    /\ at # {} /\ k > Min(at)
                    /\ log[k].ev \in Range(MainOrder) \cup {"not_deleted"}}
    IN  IF at = {} THEN <<>>
        ELSE SubSeq(log, Min(at) + 1,
                    IF later = {} THEN Len(log) ELSE Min(later) - 1)
\* The moves tried so far go from where the first entry says to where the
\* second says, under the destination root.
MovesGo(from_entry, to_entry) ==
    LET tried == PhaseEvents("move_files")
        moved == changes.lists.moved_files
    IN  /\ Len(tried) <= Len(moved)
        /\ \A k \in 1..Len(tried) :
              /\ tried[k].from = join(dest, Str(moved[k][from_entry]))
              /\ tried[k].to = join(dest, Str(moved[k][to_entry]))

OpRank(e) ==
    IF e.ev \in {"create_required_directories", "created", "create_exists",
                 "makedirs_raised"} THEN 1
    ELSE IF e.ev \in {"copy_missing_files", "copied", "copy_no_source",
                      "copy_target_exists", "copy_raised"} THEN 2
    ELSE IF e.ev = "move_files" THEN 3
    ELSE IF e.ev = "delete_files" THEN 4
    ELSE IF e.ev \in {"moved", "move_no_source", "move_target_exists",
                      "move_raised"}
    THEN (IF Parent(e.to) = delete_move_dir_path THEN 4 ELSE 3)
    ELSE 5
Announcements ==
    {"create_required_directories", "copy_missing_files", "move_files",
     "delete_files", "delete_dirs"}

\* C14. Phase order: in the record of a sync run every directory creation
\* is before every file copy, every copy before every move, every move
\* before every relocation into quarantine, every relocation before every
\* directory removal attempt; no phase is announced twice, and a run that
\* is over announced all five.
PhaseOrder ==
    /\ \A k, l \in 1..Len(log) : k < l => OpRank(log[k]) <= OpRank(log[l])
    /\ \A k, l \in 1..Len(log) :
          (log[k].ev \in Announcements /\ log[k].ev = log[l].ev) => k = l
    /\ (sync /\ pc = "done") =>
          \A n \in Announcements : \E k \in 1..Len(log) : log[k].ev = n
\* A run that made a directory, copied a file, relocated a file into
\* quarantine and removed a directory.
PhaseOrderWitness ==
    /\ sync /\ pc = "done"
    /\ \E k \in 1..Len(log) : log[k].ev = "created" /\ Parent(log[k].to) = dest
    /\ \E k \in 1..Len(log) : log[k].ev = "copied"
    /\ \E k \in 1..Len(log) : log[k].ev = "moved" /\ OpRank(log[k]) = 4
    /\ \E k \in 1..Len(log) : log[k].ev = "rmdir"

\* The deleted directories and the second entries of the moved directory
\* pairs, as paths.
DeletedDirPaths ==
    {join(dest, Str(changes.lists.deleted_dirs[k])) :
        k \in 1..Len(changes.lists.deleted_dirs)}
MovedDirOrigins ==
    {join(dest, Str(changes.lists.moved_dirs[k][2])) :
        k \in 1..Len(changes.lists.moved_dirs)}
\* The log entries that are removal attempts on directory d.
Attempts(d) ==
    {k \in 1..Len(log) :
        log[k].ev \in {"rmdir", "rmdir_absent", "rmdir_failed"} /\ log[k].from = d}
\* Whenever a removal of X was tried, a removal of each directory of Ys
\* nested inside X was tried before.
NestedFirst(Xs, Ys) ==
    \A X \in Xs, Y \in Ys :
        (X # Y /\ Under(X, Y) /\ Attempts(X) # {}) =>
            Attempts(Y) # {} /\ Min(Attempts(Y)) < Min(Attempts(X))

\* C15. Children before parents: for two directories X and Y both to be
\* removed, Y nested inside X and Y a deleted directory, the first removal
\* attempt of Y is before the first removal attempt of X, be X a deleted
\* directory or the second entry of a moved pair.
ChildrenBeforeParents ==
    changes.returned => NestedFirst(DeletedDirPaths \cup MovedDirOrigins, DeletedDirPaths)
\* The claim as first stated: Y too may be the second entry of a moved pair.
ChildrenBeforeParentsAnyListed ==
    changes.returned =>
        NestedFirst(DeletedDirPaths \cup MovedDirOrigins,
                    DeletedDirPaths \cup MovedDirOrigins)
\* Three nested deleted directories p, p/q, p/q/r, each tried.
ChildrenBeforeParentsWitness ==
    /\ changes.returned
    /\ \E d \in DeletedDirPaths :
          /\ Len(d) = Len(dest) + 3
          /\ \A k \in 0..2 : /\ SubSeq(d, 1, Len(d) - k) \in DeletedDirPaths
                              /\ Attempts(SubSeq(d, 1, Len(d) - k)) # {}

\* How many paths the first pass of delete_dirs left pending: the failed
\* ones of its attempts, one per listed directory.
PendingAfterFirstPass ==
    LET tried == PhaseEvents("delete_dirs")
        first == Len(DeleteDirsWork(dest, changes.lists.moved_dirs,
                                    changes.lists.deleted_dirs))
    IN  Cardinality({k \in 1..first : tried[k].ev = "rmdir_failed"})

\* C16. The retry loop ends: a sweep over a pending list that is not empty
\* either removes at least one directory of it, the list then being a
\* strictly shorter part of itself and the loop going on, or removes none,
\* the loop then ending at once with the list reported as it was; and no
\* more sweeps are made than paths were pending after the first pass.
RetryLoopTerminates ==
    [][(pc = "delete_dirs_retry" /\ dirs_not_deleted # <<>>) =>
          /\ i' = i + 1
          /\ i' - 1 <= PendingAfterFirstPass
          /\ \/ /\ Len(dirs_not_deleted') < Len(dirs_not_deleted)
                /\ Range(dirs_not_deleted') \subseteq Range(dirs_not_deleted)
                /\ \A d \in Range(dirs_not_deleted) :
                      d \in Range(dirs_not_deleted') <=> exists(fs', d)
                /\ pc' = "delete_dirs_retry"
             \/ /\ fs' = fs
                /\ dirs_not_deleted' = dirs_not_deleted
                /\ log'[Len(log')].ev = "not_deleted"
                /\ pc' = "done"]_vars
\* Two paths were pending after the first pass, and two sweeps removed them
\* one after the other.
RetryLoopWitness ==
    /\ pc = "done" /\ sync
    /\ PendingAfterFirstPass = 2
    /\ i = 3
    /\ dirs_not_deleted = <<>>

\* C17. Failure classification: when the first pass of delete_dirs tries a
\* directory that is empty and that the system refuses to remove, a failure
\* that is not the non-empty one, the error leaves main and the path is not
\* put on the list to retry.
OtherFailureIsFatal ==
    [][LET work == DeleteDirsWork(dest, changes.lists.moved_dirs,
                                  changes.lists.deleted_dirs)
       IN  (/\ pc = "delete_dirs" /\ i <= Len(work)
            /\ IsDir(fs, work[i]) /\ Children(fs, work[i]) = {}
            /\ fs[work[i]].busy)
           => (pc' = "crashed" /\ dirs_not_deleted' = dirs_not_deleted)]_vars

\* Filesystem f with every creation time and every file size made the same.
Featureless(f) ==
    [p \in DOMAIN f |->
        [f[p] EXCEPT !.ctime = 0,
                     !.size = IF f[p].kind = "file" THEN 0 ELSE -1]]
\* An entry, a list of entries and a list of pairs without the keys.
Place(e) == [relative_path |-> e.relative_path, name |-> e.name]
Places(q) == [k \in 1..Len(q) |-> Place(q[k])]
PlacePairs(q) == [k \in 1..Len(q) |-> <<Place(q[k][1]), Place(q[k][2])>>]
PlacesOf(l) ==
    [missing_dirs  |-> Places(l.missing_dirs),
     missing_files |-> Places(l.missing_files),
     moved_dirs    |-> PlacePairs(l.moved_dirs),
     moved_files   |-> PlacePairs(l.moved_files),
     deleted_dirs  |-> Places(l.deleted_dirs),
     deleted_files |-> Places(l.deleted_files)]
\* get_changes on the same trees with every time and size made the same.
FeaturelessChanges ==
    LET f == Featureless(fs0)
        s == get_directory_contents(f, src)
    IN  get_changes(f, src, dest,
                    CHOOSE o \in SetOrders(NameSet(s.dirs)) : TRUE,
                    CHOOSE o \in SetOrders(NameSet(s.files)) : TRUE).changes
\* Entry e is in one of the lists of its kind.
Listed(e, missing, moved, deleted) ==
    \/ \E k \in 1..Len(missing) : missing[k] = e
    \/ \E k \in 1..Len(moved) : moved[k][1] = e \/ moved[k][2] = e
    \/ \E k \in 1..Len(deleted) : deleted[k] = e

\* C18. Classification ignores the identity key: get_changes returns, and
\* returns the same six lists of places, as it does on the snapshot whose
\* creation times and sizes are all made equal (so any two snapshots that
\* differ in these only get the same lists); and a file at the same path
\* and name on both sides with another size or creation time is in none of
\* missing, moved, deleted.
ClassificationIgnoresKey ==
    (pc # "get_changes") =>
        /\ changes.returned = FeaturelessChanges.returned
        /\ PlacesOf(changes.lists) = PlacesOf(FeaturelessChanges.lists)
        /\ changes.returned =>
              \A a \in 1..Len(SrcFiles0), b \in 1..Len(DestFiles0) :
                  (Place(SrcFiles0[a]) = Place(DestFiles0[b])
                      /\ SrcFiles0[a].key # DestFiles0[b].key) =>
                    \A e \in {SrcFiles0[a], DestFiles0[b]} :
                        ~Listed(e, changes.lists.missing_files,
                                changes.lists.moved_files,
                                changes.lists.deleted_files)
\* A file at the same place on both sides with another size and creation
\* time, next to a file that is deleted.
ClassificationIgnoresKeyWitness ==
    /\ changes.returned
    /\ changes.lists.deleted_files # <<>>
    /\ \E a \in 1..Len(SrcFiles0), b \in 1..Len(DestFiles0) :
          /\ Place(SrcFiles0[a]) = Place(DestFiles0[b])
          /\ SrcFiles0[a].key.size # DestFiles0[b].key.size
          /\ SrcFiles0[a].key.creation_time # DestFiles0[b].key.creation_time

\* The relative paths of the entries of a kind beneath base in f.
RelPathsOf(f, base, kind) ==
    {SubSeq(p, Len(base) + 1, Len(p)) :
        p \in {q \in DOMAIN f : q # base /\ Under(base, q) /\ f[q].kind = kind}}
\* The two trees are apart, no collection holds a name twice, no relative
\* path is a file on one side and a directory on the other, and the
\* quarantine directory is the caller's, outside both trees and empty.
ConvergencePremises ==
    /\ src # dest
    /\ \A c \in {SrcDirs0, SrcFiles0, DestDirs0, DestFiles0} : ~HasTwoOfAName(c)
    /\ RelPathsOf(fs0, src, "file") \cap RelPathsOf(fs0, dest, "dir") = {}
    /\ RelPathsOf(fs0, src, "dir") \cap RelPathsOf(fs0, dest, "file") = {}
    /\ argv.delete_dir = QUAR
    /\ IsDir(fs0, QUAR) /\ Children(fs0, QUAR) = {}
\* get_changes on the filesystem as it is now.
FreshChanges ==
    LET s == get_directory_contents(fs, src)
    IN  get_changes(fs, src, dest,
                    CHOOSE o \in SetOrders(NameSet(s.dirs)) : TRUE,
                    CHOOSE o \in SetOrders(NameSet(s.files)) : TRUE)

\* C19. Convergence: under the premises a sync run does not end in an
\* error, and when it is over the destination holds exactly the directory
\* paths and the file paths of the source, the source is what it was, and
\* get_changes called anew returns six empty lists.
Convergence ==
    (sync /\ ConvergencePremises) =>
        /\ pc \notin {"aborted", "crashed"}
        /\ pc = "done" =>
              /\ RelPathsOf(fs, dest, "dir") = RelPathsOf(fs, src, "dir")
              /\ RelPathsOf(fs, dest, "file") = RelPathsOf(fs, src, "file")
              /\ \A p \in DOMAIN fs0 : Under(src, p) => (exists(fs, p) /\ fs[p] = fs0[p])
              /\ RelPathsOf(fs, src, "dir") = RelPathsOf(fs0, src, "dir")
              /\ RelPathsOf(fs, src, "file") = RelPathsOf(fs0, src, "file")
              /\ FreshChanges.error = NoError
              /\ FreshChanges.changes.returned
              /\ FreshChanges.changes.lists = NoLists
\* A run under the premises that had a directory to make, a file to move,
\* a file to relocate and a directory to remove, and is over.
ConvergenceWitness ==
    /\ sync /\ ConvergencePremises /\ pc = "done"
    /\ changes.lists.missing_dirs # <<>>
    /\ changes.lists.moved_files # <<>>
    /\ changes.lists.deleted_files # <<>>
    /\ changes.lists.deleted_dirs # <<>>

\* Path p is the default quarantine directory or lies in it.
InQuarantine(p) == Under(DefaultQuarantine(dest), p)
\* The destination paths of the entries classified as deleted or moved.
ClassifiedPaths ==
    LET l == changes.lists
    IN  {join(dest, Str(e)) :
            e \in Range(l.deleted_dirs) \cup Range(l.deleted_files)
                  \cup {l.moved_dirs[k][2] : k \in 1..Len(l.moved_dirs)}
                  \cup {l.moved_files[k][2] : k \in 1..Len(l.moved_files)}}

\* C20. Quarantine is invisible to later runs: in a run that follows one
\* which relocated files into the default quarantine directory, neither the
\* directory nor a file in it is classified as deleted or moved, no move or
\* removal is tried on them, and no duplicate-name error is raised.
QuarantineInvisible ==
    (/\ run > 1
     /\ argv.delete_dir = NoPath
     /\ \E p \in DOMAIN fs0 : IsFile(fs0, p) /\ InQuarantine(p)) =>
        /\ \A p \in ClassifiedPaths : ~InQuarantine(p)
        /\ \A k \in 1..Len(log) : ~InQuarantine(log[k].from)
        /\ error.kind # "duplicate"

====
